---- MODULE Spec2Model ----
(***************************************************************************)
(* Model of the sales dashboard script miniapp.py.  One run of the script  *)
(* (one Streamlit pass) is a sequence of steps, one per block of the       *)
(* script; pc is the position of the run.  Text is a sequence of           *)
(* one-character strings, so that strip(), lower() and string ordering are *)
(* computed.  Numbers are fixed-point: the integer n stands for n / Scale, *)
(* and ratios are exact fractions (floating-point rounding is not          *)
(* modelled).  Metric values are finite numbers or missing (NaN).          *)
(***************************************************************************)
EXTENDS Integers, Sequences, FiniteSets, TLC

\* ------------------------------------------------------------------ bounds
\* Largest number of data rows of an uploaded file.
MaxRows == 5
\* Denominator of the fixed-point metric values (n stands for n / Scale).
Scale == 2
\* How many slider positions above its minimum the Top-K slider is moved.
KSlack == 1
\* How many slider positions above its minimum the Top-N slider is moved.
NSlack == 0

\* --------------------------------------------------------- program constants
TopNMin == 3
TopNDefault == 10
TopNMax == 20
TopKMin == 3
TopKMax == 10

\* -------------------------------------------------------------------- text
UpperCase == <<"A", "B", "C", "D", "E", "F", "G", "H", "I", "J", "K", "L", "M",
               "N", "O", "P", "Q", "R", "S", "T", "U", "V", "W", "X", "Y", "Z">>
LowerCase == <<"a", "b", "c", "d", "e", "f", "g", "h", "i", "j", "k", "l", "m",
               "n", "o", "p", "q", "r", "s", "t", "u", "v", "w", "x", "y", "z">>
\* Code-point order of the characters that occur: " " < "(" < ")" < "/" < A-Z < a-z.
Alphabet == <<" ", "(", ")", "/">> \o UpperCase \o LowerCase

Ord(c) == CHOOSE i \in 1..Len(Alphabet) : Alphabet[i] = c

\* The sequence s written out element by element (a function with domain
\* 1..n is the same value as the tuple of its elements).
Tup(s) == s \o <<>>

\* str.lower(), one character
LowerChar(c) ==
    IF \E i \in 1..Len(UpperCase) : UpperCase[i] = c
    THEN LowerCase[CHOOSE i \in 1..Len(UpperCase) : UpperCase[i] = c]
    ELSE c

\* str.lower()
Lower(s) == Tup([i \in 1..Len(s) |-> LowerChar(s[i])])

\* str.strip(): leading and trailing whitespace removed
Strip(s) ==
    LET keep == {i \in 1..Len(s) : s[i] # " "}
    IN  IF keep = {} THEN <<>>
        ELSE LET lo == CHOOSE i \in keep : \A j \in keep : i <= j
                 hi == CHOOSE i \in keep : \A j \in keep : j <= i
             IN  SubSeq(s, lo, hi)

\* Python's < on str: lexicographic by code point
StrLess(a, b) ==
    \E i \in 1..(Len(b)) :
        /\ \A j \in 1..(i - 1) : j <= Len(a) /\ a[j] = b[j]
        /\ \/ i = Len(a) + 1
           \/ i <= Len(a) /\ Ord(a[i]) < Ord(b[i])

\* --------------------------------------------------------- sequence helpers
Range(s) == {s[i] : i \in 1..Len(s)}

\* The elements of s that satisfy Test, in order (boolean-mask indexing).
SelectIdx(s, keep) ==
    LET F[i \in 0..Len(s)] ==
            IF i = 0 THEN <<>>
            ELSE IF i \in keep THEN Append(F[i - 1], s[i]) ELSE F[i - 1]
    IN  F[Len(s)]

\* Stable sort of s by the strict order lt, a set of pairs <<x, y>> with x
\* before y: element i goes to position 1 + the number of elements that
\* precede it.
StableSort(s, lt) ==
    LET pos(i) == 1 + Cardinality({j \in 1..Len(s) :
                        <<s[j], s[i]>> \in lt \/ (<<s[i], s[j]>> \notin lt /\ j < i)})
    IN  Tup([p \in 1..Len(s) |-> s[CHOOSE i \in 1..Len(s) : pos(i) = p]])

\* Python's < on the strings of s, as a set of pairs
StrOrder(s) == {p \in Range(s) \X Range(s) : StrLess(p[1], p[2])}

\* The distinct elements of s in order of first appearance (Series.unique()).
Unique(s) == SelectIdx(s, {i \in 1..Len(s) : \A j \in 1..(i - 1) : s[j] # s[i]})

SumSeq(s) ==
    LET F[i \in 0..Len(s)] == IF i = 0 THEN 0 ELSE F[i - 1] + s[i]
    IN  F[Len(s)]

\* ------------------------------------------------------------------- cells
\* A cell of the table: a number, a text, or missing (NaN).
Num(n) == [t |-> "num", n |-> n, s |-> <<>>]
Text(s) == [t |-> "str", n |-> 0, s |-> s]
NaN == [t |-> "nan", n |-> 0, s |-> <<>>]

IsNaN(c) == c.t = "nan"

\* ------------------------------------------------------------- column names
REGION == <<"R", "E", "G", "I", "O", "N">>
ID == <<"I", "D">>
NOMBRE == <<"N", "O", "M", "B", "R", "E">>
APELLIDO == <<"A", "P", "E", "L", "L", "I", "D", "O">>
SALARIO == <<"S", "A", "L", "A", "R", "I", "O">>
UNIDADES_VENDIDAS == <<"U", "N", "I", "D", "A", "D", "E", "S", " ",
                       "V", "E", "N", "D", "I", "D", "A", "S">>
VENTAS_TOTALES == <<"V", "E", "N", "T", "A", "S", " ", "T", "O", "T", "A", "L", "E", "S">>
PORCENTAJE_DE_VENTAS == <<"P", "O", "R", "C", "E", "N", "T", "A", "J", "E", " ",
                          "D", "E", " ", "V", "E", "N", "T", "A", "S">>
VENDEDOR == <<"V", "E", "N", "D", "E", "D", "O", "R">>
Otros == <<"O", "t", "r", "o", "s">>
Todos == <<"(", "T", "o", "d", "o", "s", ")">>

\* ------------------------------------------------------------- data frames
\* A DataFrame: the column labels and the rows, each row a sequence of cells
\* aligned with the columns.  Row i carries the index label i.
ColPos(frame, name) == {i \in 1..Len(frame.columns) : frame.columns[i] = name}

\* name in df.columns
HasCol(frame, name) == ColPos(frame, name) # {}

\* df[name] is a Series only when exactly one column carries the label; with a
\* repeated label it is a DataFrame, which the Series operations reject.
IsSeries(frame, name) == Cardinality(ColPos(frame, name)) = 1

\* df[name], as the sequence of its cells
Col(frame, name) ==
    LET p == CHOOSE i \in ColPos(frame, name) : TRUE
    IN  Tup([r \in 1..Len(frame.rows) |-> frame.rows[r][p]])

\* df[name] = values: replaces the column, or appends it when it is new
SetCol(frame, name, values) ==
    IF HasCol(frame, name)
    THEN [frame EXCEPT !.rows = Tup([r \in 1..Len(frame.rows) |->
            Tup([c \in 1..Len(frame.columns) |->
                IF c \in ColPos(frame, name) THEN values[r] ELSE frame.rows[r][c]])])]
    ELSE [columns |-> Append(frame.columns, name),
          rows |-> Tup([r \in 1..Len(frame.rows) |-> Append(frame.rows[r], values[r])])]

\* ------------------------------------------------------- normalize_columns
mapping ==
    << <<Lower(REGION), REGION>>,
       <<Lower(ID), ID>>,
       <<Lower(NOMBRE), NOMBRE>>,
       <<Lower(APELLIDO), APELLIDO>>,
       <<Lower(SALARIO), SALARIO>>,
       <<Lower(UNIDADES_VENDIDAS), UNIDADES_VENDIDAS>>,
       <<Lower(VENTAS_TOTALES), VENTAS_TOTALES>>,
       <<Lower(PORCENTAJE_DE_VENTAS), PORCENTAJE_DE_VENTAS>> >>

\* current = {c.strip().lower(): c for c in df.columns}: the keys of the dict
currentKeys(columns) == {Lower(Strip(columns[i])) : i \in 1..Len(columns)}

\* current[k]: a later column with the same key replaces an earlier one
current(columns, k) ==
    LET hits == {i \in 1..Len(columns) : Lower(Strip(columns[i])) = k}
    IN  columns[CHOOSE i \in hits : \A j \in hits : j <= i]

\* renamed: the pairs <<old label, canonical label>>
renamed(columns) ==
    {<<current(columns, mapping[m][1]), mapping[m][2]>> :
        m \in {n \in 1..Len(mapping) : mapping[n][1] \in currentKeys(columns)}}

\* df.rename(columns=renamed)
normalize_columns(frame) ==
    LET ren == renamed(frame.columns)
    IN  [frame EXCEPT !.columns = Tup([i \in 1..Len(frame.columns) |->
            IF \E p \in ren : p[1] = frame.columns[i]
            THEN (CHOOSE p \in ren : p[1] = frame.columns[i])[2]
            ELSE frame.columns[i]])]

\* ---------------------------------------------------------------- validation
\* Mutant of required_cols: SALARIO is required too.
required_cols_with_salario ==
    <<REGION, NOMBRE, APELLIDO, UNIDADES_VENDIDAS, VENTAS_TOTALES,
      PORCENTAJE_DE_VENTAS, SALARIO>>

required_cols == <<REGION, NOMBRE, APELLIDO, UNIDADES_VENDIDAS, VENTAS_TOTALES,
                   PORCENTAJE_DE_VENTAS>>

\* missing = [c for c in required_cols if c not in df.columns]
missingCols(frame) ==
    SelectIdx(required_cols,
              {i \in 1..Len(required_cols) : ~HasCol(frame, required_cols[i])})

\* ------------------------------------------------------------ float results
\* The result of a float computation: a finite fraction p/q in lowest terms
\* (q > 0), or one of the IEEE special values.
GCD(a, b) ==
    LET G[x \in 0..(IF a < 0 THEN -a ELSE a), y \in 0..(IF b < 0 THEN -b ELSE b)] ==
            IF y = 0 THEN x ELSE IF x = 0 THEN y
            ELSE IF x >= y THEN G[x % y, y] ELSE G[x, y % x]
    IN  G[IF a < 0 THEN -a ELSE a, IF b < 0 THEN -b ELSE b]

Fin(p, q) ==
    LET g == GCD(p, q)
        sg == IF q < 0 THEN -1 ELSE 1
    IN  [k |-> "fin", p |-> sg * (p \div g), q |-> sg * (q \div g)]

FNaN == [k |-> "nan", p |-> 0, q |-> 1]
FInf == [k |-> "inf", p |-> 0, q |-> 1]
FNegInf == [k |-> "ninf", p |-> 0, q |-> 1]

\* a / b on numeric columns: a zero divisor gives NaN or an infinity, no error
FDiv(a, b) ==
    IF b # 0 THEN Fin(a, b)
    ELSE IF a = 0 THEN FNaN ELSE IF a > 0 THEN FInf ELSE FNegInf

\* x + y on float results
FAdd(x, y) ==
    IF x.k = "nan" \/ y.k = "nan" THEN FNaN
    ELSE IF x.k = "fin" /\ y.k = "fin" THEN Fin(x.p * y.q + y.p * x.q, x.q * y.q)
    ELSE IF x.k = "fin" THEN y
    ELSE IF y.k = "fin" \/ y.k = x.k THEN x
    ELSE FNaN

\* int(x) of a finite fixed-point number n / Scale: truncation toward zero
IntOf(n) == IF n >= 0 THEN n \div Scale ELSE -((-n) \div Scale)

\* ------------------------------------------------------------ type coercion
\* pd.to_numeric(..., errors="coerce") on one cell: text that is no number
\* becomes missing
to_numeric(c) == IF c.t = "num" THEN c ELSE NaN

numeric_cols == <<UNIDADES_VENDIDAS, VENTAS_TOTALES, PORCENTAJE_DE_VENTAS, SALARIO>>

\* The loop reads df[col] as a Series: a repeated label raises TypeError.
\* The positions in numeric_cols at which the loop raises.
coerceBad(frame) ==
    {i \in 1..Len(numeric_cols) :
        HasCol(frame, numeric_cols[i]) /\ ~IsSeries(frame, numeric_cols[i])}

coerceRaises(frame) == coerceBad(frame) # {}

\* The loop over the metric columns: each one present is coerced, up to the
\* first one that raises.
coerce(frame) ==
    LET bad == coerceBad(frame)
        last == IF bad = {} THEN Len(numeric_cols)
                ELSE (CHOOSE i \in bad : \A j \in bad : i <= j) - 1
        F[i \in 0..Len(numeric_cols)] ==
            IF i = 0 THEN frame
            ELSE IF HasCol(F[i - 1], numeric_cols[i])
                 THEN SetCol(F[i - 1], numeric_cols[i],
                             Tup([r \in 1..Len(frame.rows) |->
                                 to_numeric(Col(F[i - 1], numeric_cols[i])[r])]))
                 ELSE F[i - 1]
    IN  F[last]

\* astype(str) of a name cell: a missing value reads "nan"
AsStr(c) == IF c.t = "str" THEN c.s ELSE <<"n", "a", "n">>

\* NOMBRE.astype(str).str.strip() + " " + APELLIDO.astype(str).str.strip()
full_name(nombre, apellido) ==
    Strip(AsStr(nombre)) \o <<" ">> \o Strip(AsStr(apellido))

\* df["VENDEDOR"] = ...
with_vendedor(frame) ==
    SetCol(frame, VENDEDOR,
           Tup([r \in 1..Len(frame.rows) |->
               Text(full_name(Col(frame, NOMBRE)[r], Col(frame, APELLIDO)[r]))]))

\* .str on a DataFrame (a repeated NOMBRE or APELLIDO label) raises
vendedorRaises(frame) == ~IsSeries(frame, NOMBRE) \/ ~IsSeries(frame, APELLIDO)

\* ------------------------------------------------------------------ filters
\* The rows of a frame are referred to by their index labels 1..n.
RegionOf(frame, r) == Col(frame, REGION)[r]
VendedorOf(frame, r) == Col(frame, VENDEDOR)[r].s

\* sorted(df["REGION"].dropna().unique().tolist())
regiones_of(frame) ==
    LET cells == Col(frame, REGION)
        vals == Unique(SelectIdx(Tup([i \in 1..Len(cells) |-> cells[i].s]),
                                 {i \in 1..Len(cells) : ~IsNaN(cells[i])}))
    IN  StableSort(vals, StrOrder(vals))

\* df["REGION"].isin(sel), one row
InRegions(frame, r, sel) == ~IsNaN(RegionOf(frame, r)) /\ RegionOf(frame, r).s \in sel

\* Mutant of vendedores_of: the salespersons of the whole table.
vendedores_of_all(frame, sel) ==
    LET names == Tup([r \in 1..Len(frame.rows) |-> VendedorOf(frame, r)])
    IN  Unique(StableSort(names, StrOrder(names)))

\* df.loc[df["REGION"].isin(regiones_sel), "VENDEDOR"].sort_values().unique().tolist()
vendedores_of(frame, sel) ==
    LET rows == SelectIdx(Tup([r \in 1..Len(frame.rows) |-> r]),
                          {r \in 1..Len(frame.rows) : InRegions(frame, r, sel)})
        names == Tup([i \in 1..Len(rows) |-> VendedorOf(frame, rows[i])])
    IN  Unique(StableSort(names, StrOrder(names)))

\* Mutant of apply_filters: the salesperson chosen is ignored.
apply_filters_region_only(frame, sel, vend) ==
    SelectIdx(Tup([r \in 1..Len(frame.rows) |-> r]),
              {r \in 1..Len(frame.rows) : InRegions(frame, r, sel)})

\* df[df["REGION"].isin(regiones_sel)], then df_f[df_f["VENDEDOR"] == vendedor_sel]
\* unless "(Todos)" is chosen: the index labels of the rows kept
apply_filters(frame, sel, vend) ==
    LET byRegion == {r \in 1..Len(frame.rows) : InRegions(frame, r, sel)}
        kept == IF vend # Todos
                THEN {r \in byRegion : VendedorOf(frame, r) = vend}
                ELSE byRegion
    IN  SelectIdx(Tup([r \in 1..Len(frame.rows) |-> r]), kept)

\* --------------------------------------------------------------------- KPIs
\* Series.sum() over the rows idx: missing values are skipped, an empty sum is 0
SumOf(frame, name, idx) ==
    LET c == Col(frame, name)
    IN  SumSeq(Tup([i \in 1..Len(idx) |-> IF IsNaN(c[idx[i]]) THEN 0 ELSE c[idx[i]].n]))

\* Series.mean() over the rows idx: over the non-missing values, NaN when none
MeanOf(frame, name, idx) ==
    LET c == Col(frame, name)
        n == Cardinality({i \in 1..Len(idx) : ~IsNaN(c[idx[i]])})
    IN  FDiv(SumOf(frame, name, idx), Scale * n)

\* int(df_f["UNIDADES VENDIDAS"].sum())
total_unidades_of(frame, idx) == IntOf(SumOf(frame, UNIDADES_VENDIDAS, idx))

\* float(df_f["VENTAS TOTALES"].sum())
total_ventas_of(frame, idx) == Fin(SumOf(frame, VENTAS_TOTALES, idx), Scale)

\* (total_ventas / total_unidades) if total_unidades else 0.0
ticket_prom_of(ventas, unidades) ==
    IF unidades # 0 THEN Fin(ventas.p, ventas.q * unidades) ELSE Fin(0, 1)

kpis_of(frame, idx) ==
    [total_unidades |-> total_unidades_of(frame, idx),
     total_ventas |-> total_ventas_of(frame, idx),
     prom_pct |-> MeanOf(frame, PORCENTAJE_DE_VENTAS, idx),
     ticket_prom |-> ticket_prom_of(total_ventas_of(frame, idx),
                                    total_unidades_of(frame, idx))]

\* ------------------------------------------------------------ Top N ranking
\* Whether row a sorts strictly before row b in
\* sort_values("VENTAS TOTALES", ascending=False): larger first, missing last.
SalesBefore(frame, a, b) ==
    LET c == Col(frame, VENTAS_TOTALES)
    IN  /\ ~IsNaN(c[a])
        /\ IsNaN(c[b]) \/ c[a].n > c[b].n

\* The orders sort_values may give the rows S: the default sort kind is not
\* stable, so rows with equal keys come in any order.
RECURSIVE SortedOrders(_, _)
SortedOrders(frame, S) ==
    IF S = {} THEN {<<>>}
    ELSE UNION {{<<x>> \o rest : rest \in SortedOrders(frame, S \ {x})} :
                   x \in {y \in S : \A z \in S : ~SalesBefore(frame, z, y)}}

\* .head(n)
head_n(s, n) == SubSeq(s, 1, IF Len(s) < n THEN Len(s) ELSE n)

\* ---------------------------------------------------------- topk_mas_otros
\* The sorted group keys of df_in.groupby(["REGION", "VENDEDOR"]): rows whose
\* REGION is missing belong to no group.
KeyLess(a, b) == StrLess(a[1], b[1]) \/ (a[1] = b[1] /\ StrLess(a[2], b[2]))

group_keys(frame, idx) ==
    LET rows == SelectIdx(idx, {i \in 1..Len(idx) : ~IsNaN(RegionOf(frame, idx[i]))})
        keys == Unique(Tup([i \in 1..Len(rows) |->
                    <<RegionOf(frame, rows[i]).s, VendedorOf(frame, rows[i])>>]))
    IN  StableSort(keys, {p \in Range(keys) \X Range(keys) : KeyLess(p[1], p[2])})

\* The rows of one group
group_rows(frame, idx, key) ==
    SelectIdx(idx, {i \in 1..Len(idx) :
        /\ ~IsNaN(RegionOf(frame, idx[i]))
        /\ RegionOf(frame, idx[i]).s = key[1]
        /\ VendedorOf(frame, idx[i]) = key[2]})

\* base: one row per (REGION, VENDEDOR) with the sum of value_col as VALOR
base_of(frame, idx, value_col) ==
    LET keys == group_keys(frame, idx)
    IN  Tup([i \in 1..Len(keys) |->
            [REGION |-> keys[i][1], VENDEDOR |-> keys[i][2],
             VALOR |-> SumOf(frame, value_col, group_rows(frame, idx, keys[i]))]])

\* base.groupby("REGION")["VALOR"].rank(method="first", ascending=False), row i:
\* larger values first, equal values in order of appearance
rank_first(base, i) ==
    1 + Cardinality({j \in 1..Len(base) :
            /\ base[j].REGION = base[i].REGION
            /\ \/ base[j].VALOR > base[i].VALOR
               \/ base[j].VALOR = base[i].VALOR /\ j < i})

\* Mutant of top_of: the comparison is strict.
top_of_strict(base, k) ==
    SelectIdx(base, {i \in 1..Len(base) : rank_first(base, i) < k})

\* top = base[base["RANK"] <= k]
top_of(base, k) == SelectIdx(base, {i \in 1..Len(base) : rank_first(base, i) <= k})

\* otros = base[base["RANK"] > k].groupby("REGION", as_index=False)["VALOR"].sum(),
\* labelled "Otros"
otros_of(base, k) ==
    LET rest == SelectIdx(base, {i \in 1..Len(base) : rank_first(base, i) > k})
        regs == Unique(Tup([i \in 1..Len(rest) |-> rest[i].REGION]))
    IN  Tup([r \in 1..Len(regs) |->
            [REGION |-> regs[r], VENDEDOR |-> Otros,
             VALOR |-> SumSeq(Tup([i \in 1..Len(rest) |->
                          IF rest[i].REGION = regs[r] THEN rest[i].VALOR ELSE 0]))]])

\* pd.concat([top, otros]) when otros is not empty
concat_of(base, k) ==
    IF otros_of(base, k) # <<>> THEN top_of(base, k) \o otros_of(base, k)
    ELSE top_of(base, k)

\* Mutant of total_region: the "Otros" row is left out of the total.
total_region_named(top, region) ==
    SumSeq(Tup([i \in 1..Len(top) |->
        IF top[i].REGION = region /\ top[i].VENDEDOR # Otros THEN top[i].VALOR ELSE 0]))

\* totales: TOTAL_REGION of one region, the sum of VALOR over its rows of top
total_region(top, region) ==
    SumSeq(Tup([i \in 1..Len(top) |-> IF top[i].REGION = region THEN top[i].VALOR ELSE 0]))

\* Mutant of pct_region: a zero total gives 0.
pct_region_guarded(valor, total) ==
    IF total = 0 THEN Fin(0, 1) ELSE FDiv(100 * valor, total)

\* PCT_REGION = (VALOR / TOTAL_REGION) * 100
pct_region(valor, total) == FDiv(100 * valor, total)

topk_mas_otros(frame, idx, k, value_col) ==
    LET top == concat_of(base_of(frame, idx, value_col), k)
    IN  Tup([i \in 1..Len(top) |->
            [REGION |-> top[i].REGION, VENDEDOR |-> top[i].VENDEDOR,
             VALOR |-> top[i].VALOR,
             TOTAL_REGION |-> total_region(top, top[i].REGION),
             PCT_REGION |-> pct_region(top[i].VALOR, total_region(top, top[i].REGION))]])

\* datos.sort_values(["REGION", "VALOR"], ascending=[True, False])
DatosLess(a, b) ==
    StrLess(a.REGION, b.REGION) \/ (a.REGION = b.REGION /\ a.VALOR > b.VALOR)

datos_of(frame, idx, k, value_col) ==
    LET top == topk_mas_otros(frame, idx, k, value_col)
    IN  StableSort(top, {p \in Range(top) \X Range(top) : DatosLess(p[1], p[2])})

\* ---------------------------------------------------------- salesperson detail
\* d = df[df["VENDEDOR"] == vendedor_sel]
detail_rows(frame, vend) ==
    SelectIdx(Tup([r \in 1..Len(frame.rows) |-> r]),
              {r \in 1..Len(frame.rows) : VendedorOf(frame, r) = vend})

\* The indicators of the detail, over the rows of d
detail_of(frame, rows) ==
    [rows |-> rows,
     unidades |-> IntOf(SumOf(frame, UNIDADES_VENDIDAS, rows)),
     ventas |-> Fin(SumOf(frame, VENTAS_TOTALES, rows), Scale),
     prom_pct |-> MeanOf(frame, PORCENTAJE_DE_VENTAS, rows)]

\* ------------------------------------------------------------ uploaded files
T(c) == Text(<<c>>)

\* The data rows a file is made of.  Values are in units of 1 / Scale.
RowPool ==
    << [region |-> T("A"), nombre |-> T("a"), apellido |-> T("x"), salario |-> Num(20),
        units |-> Num(3), sales |-> Num(6), pct |-> Num(40), notas |-> T("n")],
       [region |-> T("A"), nombre |-> T("b"), apellido |-> T("x"), salario |-> NaN,
        units |-> Num(2), sales |-> Num(6), pct |-> NaN, notas |-> NaN],
       [region |-> T("A"), nombre |-> T("c"), apellido |-> T("x"), salario |-> Num(10),
        units |-> Num(-3), sales |-> Num(-6), pct |-> Num(20), notas |-> NaN],
       [region |-> T("A"), nombre |-> T("d"), apellido |-> T("x"), salario |-> Num(10),
        units |-> Num(1), sales |-> Text(<<"n", "/", "d">>), pct |-> Num(20), notas |-> NaN],
       [region |-> T("A"), nombre |-> T("e"), apellido |-> T("x"), salario |-> T("s"),
        units |-> Num(0), sales |-> Num(2), pct |-> T("p"), notas |-> NaN],
       [region |-> T("A"), nombre |-> Text(<<" ", "a">>), apellido |-> Text(<<"x", " ">>),
        salario |-> Num(20), units |-> Num(2), sales |-> Num(4), pct |-> Num(10),
        notas |-> NaN],
       [region |-> T("B"), nombre |-> T("a"), apellido |-> T("x"), salario |-> Num(20),
        units |-> Num(4), sales |-> Num(8), pct |-> Num(60), notas |-> NaN],
       [region |-> T("B"), nombre |-> T("f"), apellido |-> NaN, salario |-> NaN,
        units |-> T("u"), sales |-> NaN, pct |-> NaN, notas |-> NaN],
       [region |-> NaN, nombre |-> T("g"), apellido |-> T("x"), salario |-> Num(10),
        units |-> Num(2), sales |-> Num(2), pct |-> Num(10), notas |-> NaN] >>

\* A column of a file: its header as written and the field it holds.
H(hdr, fld) == [hdr |-> hdr, fld |-> fld]

\* Exactly the canonical required headers, no SALARIO.
LayoutPlain ==
    <<H(REGION, "region"), H(NOMBRE, "nombre"), H(APELLIDO, "apellido"),
      H(UNIDADES_VENDIDAS, "units"), H(VENTAS_TOTALES, "sales"),
      H(PORCENTAJE_DE_VENTAS, "pct")>>

\* Case and whitespace variants, SALARIO and an unrecognized column.
LayoutMessy ==
    <<H(<<" ", " ">> \o Lower(REGION) \o <<" ">>, "region"),
      H(Lower(NOMBRE), "nombre"), H(APELLIDO \o <<" ">>, "apellido"),
      H(<<"S">> \o Lower(SubSeq(SALARIO, 2, 7)), "salario"),
      H(Lower(UNIDADES_VENDIDAS), "units"), H(VENTAS_TOTALES \o <<" ">>, "sales"),
      H(PORCENTAJE_DE_VENTAS, "pct"), H(<<"n", "o", "t", "a", "s">>, "notas")>>

\* Required columns absent: APELLIDO, UNIDADES VENDIDAS, PORCENTAJE DE VENTAS.
LayoutMissing ==
    <<H(REGION, "region"), H(Lower(NOMBRE), "nombre"), H(SALARIO, "salario"),
      H(VENTAS_TOTALES, "sales")>>

\* Two variants of "region", the canonical one last.
LayoutVariantFirst ==
    <<H(<<" ", " ">> \o Lower(REGION) \o <<" ">>, "notas")>> \o LayoutPlain

\* Two variants of a recognized name, the canonical one first.
LayoutRegionTwice == LayoutPlain \o <<H(Lower(REGION) \o <<" ">>, "region")>>
LayoutSalesTwice == LayoutPlain \o <<H(Lower(VENTAS_TOTALES), "sales")>>
LayoutNombreTwice == LayoutPlain \o <<H(<<" ">> \o Lower(NOMBRE), "nombre")>>

ShortLayouts == {LayoutMissing, LayoutVariantFirst, LayoutRegionTwice,
                 LayoutSalesTwice, LayoutNombreTwice}

\* The increasing sequence of the elements of a set of row numbers
SeqOfSet(S) ==
    Tup([p \in 1..Cardinality(S) |->
        CHOOSE x \in S : Cardinality({y \in S : y < x}) = p - 1])

RowChoices(n) ==
    {SeqOfSet(S) : S \in {X \in SUBSET (1..Len(RowPool)) : Cardinality(X) <= n}}

MkFrame(layout, rs) ==
    [columns |-> Tup([i \in 1..Len(layout) |-> layout[i].hdr]),
     rows |-> Tup([r \in 1..Len(rs) |->
                 Tup([i \in 1..Len(layout) |-> RowPool[rs[r]][layout[i].fld]])])]

NoFrame == [columns |-> <<>>, rows |-> <<>>]
NoFile == [present |-> FALSE, data |-> NoFrame]

\* What the user can upload: the plain layout with up to MaxRows rows, the
\* other layouts with fewer.
Files ==
    {[present |-> TRUE, data |-> MkFrame(LayoutPlain, rs)] : rs \in RowChoices(MaxRows)}
    \cup
    {[present |-> TRUE, data |-> MkFrame(LayoutMessy, rs)] : rs \in RowChoices(2)}
    \cup
    {[present |-> TRUE, data |-> MkFrame(l, rs)] : l \in ShortLayouts, rs \in RowChoices(1)}

\* pd.read_excel / pd.read_csv: the parsed table of the file
load_data(f) == f.data

\* -------------------------------------------------------------------- state
VARIABLES
    file,            \* the uploaded file held by the uploader widget
    show_table,      \* the "Mostrar tabla" checkbox as read by this run
    pc,              \* the block of the script the run is at
    df,              \* the table
    messages,        \* st.info / st.error / st.warning shown by this run
    missing,         \* the required columns found absent
    regiones, regiones_sel, vendedores_disp, vendedor_sel, top_n,
    df_f,            \* the filtered view: index labels of its rows
    kpis,            \* <<>> or <<the four indicators>>
    ranked,          \* the Top N rows
    metrica, top_k,
    datos,           \* the contribution view
    d,               \* <<>> or <<the salesperson detail>>
    table,           \* <<>> or <<the rows shown by st.dataframe>>
    blocks           \* the blocks of the script this run has executed

vars == <<file, show_table, pc, df, messages, missing, regiones, regiones_sel,
          vendedores_disp, vendedor_sel, top_n, df_f, kpis, ranked, metrica,
          top_k, datos, d, table, blocks>>

\* The values a run starts with: nothing computed yet.
Fresh ==
    /\ df' = NoFrame
    /\ messages' = {}
    /\ missing' = <<>>
    /\ regiones' = <<>>
    /\ regiones_sel' = {}
    /\ vendedores_disp' = <<>>
    /\ vendedor_sel' = Todos
    /\ top_n' = TopNDefault
    /\ df_f' = <<>>
    /\ kpis' = <<>>
    /\ ranked' = <<>>
    /\ metrica' = VENTAS_TOTALES
    /\ top_k' = TopKMin
    /\ datos' = <<>>
    /\ d' = <<>>
    /\ table' = <<>>
    /\ blocks' = {}

Init ==
    /\ file = NoFile
    /\ show_table = TRUE
    /\ pc = "sidebar"
    /\ df = NoFrame
    /\ messages = {}
    /\ missing = <<>>
    /\ regiones = <<>>
    /\ regiones_sel = {}
    /\ vendedores_disp = <<>>
    /\ vendedor_sel = Todos
    /\ top_n = TopNDefault
    /\ df_f = <<>>
    /\ kpis = <<>>
    /\ ranked = <<>>
    /\ metrica = VENTAS_TOTALES
    /\ top_k = TopKMin
    /\ datos = <<>>
    /\ d = <<>>
    /\ table = <<>>
    /\ blocks = {}

\* The slider positions the model moves the sliders to.
TopNChoices == {n \in TopNMin..TopNMax : n <= TopNMin + NSlack}
TopKChoices == {k \in TopKMin..TopKMax : k <= TopKMin + KSlack}

\* ------------------------------------------------------------------ actions
\* Lines 64-78: the sidebar; without a file the run shows the instructions
\* and stops.
SidebarNoFile ==
    /\ pc = "sidebar"
    /\ ~file.present
    /\ show_table' \in BOOLEAN
    /\ messages' = messages \cup {"info"}
    /\ pc' = "stopped"
    /\ UNCHANGED <<file, df, missing, regiones, regiones_sel, vendedores_disp,
                   vendedor_sel, top_n, df_f, kpis, ranked, metrica, top_k, datos,
                   d, table, blocks>>

SidebarFile ==
    /\ pc = "sidebar"
    /\ file.present
    /\ show_table' \in BOOLEAN
    /\ pc' = "load"
    /\ UNCHANGED <<file, df, messages, missing, regiones, regiones_sel,
                   vendedores_disp, vendedor_sel, top_n, df_f, kpis, ranked,
                   metrica, top_k, datos, d, table, blocks>>

\* Lines 83-84: df = normalize_columns(load_data(file))
Load ==
    /\ pc = "load"
    /\ df' = normalize_columns(load_data(file))
    /\ blocks' = blocks \cup {"normalize"}
    /\ pc' = "validate"
    /\ UNCHANGED <<file, show_table, messages, missing, regiones, regiones_sel,
                   vendedores_disp, vendedor_sel, top_n, df_f, kpis, ranked,
                   metrica, top_k, datos, d, table>>

\* Lines 87-91: the required columns; the run stops when one is absent.
ValidateFail ==
    /\ pc = "validate"
    /\ missingCols(df) # <<>>
    /\ missing' = missingCols(df)
    /\ messages' = messages \cup {"error"}
    /\ pc' = "stopped"
    /\ UNCHANGED <<file, show_table, df, regiones, regiones_sel, vendedores_disp,
                   vendedor_sel, top_n, df_f, kpis, ranked, metrica, top_k, datos,
                   d, table, blocks>>

ValidateOk ==
    /\ pc = "validate"
    /\ missingCols(df) = <<>>
    /\ missing' = <<>>
    /\ pc' = "coerce"
    /\ UNCHANGED <<file, show_table, df, messages, regiones, regiones_sel,
                   vendedores_disp, vendedor_sel, top_n, df_f, kpis, ranked,
                   metrica, top_k, datos, d, table, blocks>>

\* Lines 94-96: numeric coercion of the metric columns.
Coerce ==
    /\ pc = "coerce"
    /\ df' = coerce(df)
    /\ blocks' = blocks \cup {"coerce"}
    /\ pc' = IF coerceRaises(df) THEN "crashed" ELSE "vendedor"
    /\ UNCHANGED <<file, show_table, messages, missing, regiones, regiones_sel,
                   vendedores_disp, vendedor_sel, top_n, df_f, kpis, ranked,
                   metrica, top_k, datos, d, table>>

\* Line 99: the VENDEDOR column.
MakeVendedor ==
    /\ pc = "vendedor"
    /\ IF vendedorRaises(df)
       THEN df' = df /\ pc' = "crashed"
       ELSE df' = with_vendedor(df) /\ pc' = "filters"
    /\ UNCHANGED <<file, show_table, messages, missing, regiones, regiones_sel,
                   vendedores_disp, vendedor_sel, top_n, df_f, kpis, ranked,
                   metrica, top_k, datos, d, table, blocks>>

\* Line 115 on a table with a repeated REGION label: .unique() raises.
FiltersRaise ==
    /\ pc = "filters"
    /\ ~IsSeries(df, REGION)
    /\ pc' = "crashed"
    /\ UNCHANGED <<file, show_table, df, messages, missing, regiones, regiones_sel,
                   vendedores_disp, vendedor_sel, top_n, df_f, kpis, ranked,
                   metrica, top_k, datos, d, table, blocks>>

\* Lines 113-125: the filter widgets.  A widget returns what the user has
\* chosen among the options it is given.
Filters ==
    /\ pc = "filters"
    /\ IsSeries(df, REGION)
    /\ regiones' = regiones_of(df)
    /\ regiones_sel' \in SUBSET Range(regiones_of(df))
    /\ vendedores_disp' = vendedores_of(df, regiones_sel')
    /\ vendedor_sel' \in {Todos} \cup Range(vendedores_of(df, regiones_sel'))
    /\ top_n' \in TopNChoices
    /\ pc' = "button"
    /\ UNCHANGED <<file, show_table, df, messages, missing, df_f, kpis, ranked,
                   metrica, top_k, datos, d, table, blocks>>

\* Lines 128-131: "Limpiar filtros" pressed: the session state is cleared and
\* the script runs again from the top.
ButtonClear ==
    /\ pc = "button"
    /\ Fresh
    /\ pc' = "sidebar"
    /\ UNCHANGED <<file, show_table>>

\* Lines 134-136 (button not pressed): the filtered view.
ApplyFilters ==
    /\ pc = "button"
    /\ df_f' = apply_filters(df, regiones_sel, vendedor_sel)
    /\ pc' = "guard"
    /\ UNCHANGED <<file, show_table, df, messages, missing, regiones, regiones_sel,
                   vendedores_disp, vendedor_sel, top_n, kpis, ranked, metrica,
                   top_k, datos, d, table, blocks>>

\* Mutant of GuardEmpty: the warning is shown and the run goes on.
GuardEmpty_continue ==
    /\ pc = "guard"
    /\ df_f = <<>>
    /\ messages' = messages \cup {"warning"}
    /\ pc' = "topn"
    /\ UNCHANGED <<file, show_table, df, missing, regiones, regiones_sel,
                   vendedores_disp, vendedor_sel, top_n, df_f, kpis, ranked,
                   metrica, top_k, datos, d, table, blocks>>

\* Lines 139-141: no rows left: a warning, and the run stops.
GuardEmpty ==
    /\ pc = "guard"
    /\ df_f = <<>>
    /\ messages' = messages \cup {"warning"}
    /\ pc' = "stopped"
    /\ UNCHANGED <<file, show_table, df, missing, regiones, regiones_sel,
                   vendedores_disp, vendedor_sel, top_n, df_f, kpis, ranked,
                   metrica, top_k, datos, d, table, blocks>>

\* Lines 146-158: the indicators.
KPIs ==
    /\ pc = "guard"
    /\ df_f # <<>>
    /\ kpis' = <<kpis_of(df, df_f)>>
    /\ blocks' = blocks \cup {"kpis"}
    /\ pc' = "topn"
    /\ UNCHANGED <<file, show_table, df, messages, missing, regiones, regiones_sel,
                   vendedores_disp, vendedor_sel, top_n, df_f, ranked, metrica,
                   top_k, datos, d, table>>

\* Lines 163-199: the Top N charts.
TopN ==
    /\ pc = "topn"
    /\ ranked' \in {head_n(o, top_n) : o \in SortedOrders(df, Range(df_f))}
    /\ blocks' = blocks \cup {"topn"}
    /\ pc' = "contrib"
    /\ UNCHANGED <<file, show_table, df, messages, missing, regiones, regiones_sel,
                   vendedores_disp, vendedor_sel, top_n, df_f, kpis, metrica,
                   top_k, datos, d, table>>

\* Lines 204-247: the contribution view.
Contribution ==
    /\ pc = "contrib"
    /\ metrica' \in {VENTAS_TOTALES, UNIDADES_VENDIDAS}
    /\ top_k' \in TopKChoices
    /\ datos' = datos_of(df, df_f, top_k', metrica')
    /\ blocks' = blocks \cup {"contrib"}
    /\ pc' = "detail"
    /\ UNCHANGED <<file, show_table, df, messages, missing, regiones, regiones_sel,
                   vendedores_disp, vendedor_sel, top_n, df_f, kpis, ranked, d,
                   table>>

\* Mutant of Detail: the detail is computed over the filtered view.
Detail_filtered ==
    /\ pc = "detail"
    /\ vendedor_sel # Todos
    /\ d' = <<detail_of(df, df_f)>>
    /\ blocks' = blocks \cup {"detail"}
    /\ pc' = "table"
    /\ UNCHANGED <<file, show_table, df, messages, missing, regiones, regiones_sel,
                   vendedores_disp, vendedor_sel, top_n, df_f, kpis, ranked,
                   metrica, top_k, datos, table>>

\* Lines 252-271: the detail of the chosen salesperson.
Detail ==
    /\ pc = "detail"
    /\ vendedor_sel # Todos
    /\ d' = <<detail_of(df, detail_rows(df, vendedor_sel))>>
    /\ blocks' = blocks \cup {"detail"}
    /\ pc' = "table"
    /\ UNCHANGED <<file, show_table, df, messages, missing, regiones, regiones_sel,
                   vendedores_disp, vendedor_sel, top_n, df_f, kpis, ranked,
                   metrica, top_k, datos, table>>

\* Lines 272-273: no salesperson chosen.
DetailNone ==
    /\ pc = "detail"
    /\ vendedor_sel = Todos
    /\ messages' = messages \cup {"info"}
    /\ pc' = "table"
    /\ UNCHANGED <<file, show_table, df, missing, regiones, regiones_sel,
                   vendedores_disp, vendedor_sel, top_n, df_f, kpis, ranked,
                   metrica, top_k, datos, d, table, blocks>>

\* Lines 278-281: the table of the filtered rows.
Table ==
    /\ pc = "table"
    /\ table' = IF show_table THEN <<df_f>> ELSE <<>>
    /\ blocks' = blocks \cup {"table"}
    /\ pc' = "done"
    /\ UNCHANGED <<file, show_table, df, messages, missing, regiones, regiones_sel,
                   vendedores_disp, vendedor_sel, top_n, df_f, kpis, ranked,
                   metrica, top_k, datos, d>>

\* A user interaction after a run has ended (a widget moved): the script
\* runs again from the top with the same file.
Rerun ==
    /\ pc \in {"done", "stopped", "crashed"}
    /\ Fresh
    /\ pc' = "sidebar"
    /\ UNCHANGED <<file, show_table>>

\* The user puts a file into the empty uploader; the script runs again.
Upload ==
    /\ pc \in {"done", "stopped", "crashed"}
    /\ ~file.present
    /\ file' \in Files
    /\ Fresh
    /\ pc' = "sidebar"
    /\ UNCHANGED show_table

\* The user removes the file from the uploader; the script runs again.
Remove ==
    /\ pc \in {"done", "stopped", "crashed"}
    /\ file.present
    /\ file' = NoFile
    /\ Fresh
    /\ pc' = "sidebar"
    /\ UNCHANGED show_table

Next ==
    \/ SidebarNoFile
    \/ SidebarFile
    \/ Load
    \/ ValidateFail
    \/ ValidateOk
    \/ Coerce
    \/ MakeVendedor
    \/ FiltersRaise
    \/ Filters
    \/ ButtonClear
    \/ ApplyFilters
    \/ GuardEmpty
    \/ KPIs
    \/ TopN
    \/ Contribution
    \/ Detail
    \/ DetailNone
    \/ Table
    \/ Rerun
    \/ Upload
    \/ Remove

Spec == Init /\ [][Next]_vars

\* ------------------------------------------------------ notions of the claims
\* The run has computed the filtered view.
Filtered ==
    \/ pc \in {"guard", "topn", "contrib", "detail", "table", "done"}
    \/ pc = "stopped" /\ "warning" \in messages

\* The run has evaluated the filter widgets.
WidgetsRead == Filtered \/ pc = "button"

RECURSIVE SumOver(_, _)
SumOver(S, f) ==
    IF S = {} THEN 0
    ELSE LET x == CHOOSE y \in S : TRUE IN f[x] + SumOver(S \ {x}, f)

\* The value of row r in the metric column chosen, a missing value counting 0.
MetricAt(r) ==
    LET c == df.rows[r][CHOOSE i \in 1..Len(df.columns) : df.columns[i] = metrica]
    IN  IF c.t = "num" THEN c.n ELSE 0

\* The rows of the filtered view in region reg, and those of salesperson v.
RowsIn(reg) ==
    {r \in Range(df_f) : RegionOf(df, r).t = "str" /\ RegionOf(df, r).s = reg}
RowsOf(reg, v) == {r \in RowsIn(reg) : VendedorOf(df, r) = v}

SalespersonsIn(reg) == {VendedorOf(df, r) : r \in RowsIn(reg)}
GroupSum(reg, v) == SumOver(RowsOf(reg, v), [r \in 1..Len(df.rows) |-> MetricAt(r)])

RegionsFiltered ==
    {RegionOf(df, r).s : r \in {x \in Range(df_f) : RegionOf(df, x).t = "str"}}

\* The buckets of region reg in the contribution view.
Buckets(reg) == {i \in 1..Len(datos) : datos[i].REGION = reg}
Named(reg) == {i \in Buckets(reg) : datos[i].VENDEDOR # Otros}
Others(reg) == {i \in Buckets(reg) : datos[i].VENDEDOR = Otros}
NamedLabels(reg) == {datos[i].VENDEDOR : i \in Named(reg)}
BucketTotal(reg) == SumOver(Buckets(reg), [i \in 1..Len(datos) |-> datos[i].VALOR])

RECURSIVE PctSum(_)
PctSum(S) ==
    IF S = {} THEN Fin(0, 1)
    ELSE LET x == CHOOSE y \in S : TRUE
         IN  FAdd(datos[x].PCT_REGION, PctSum(S \ {x}))

\* ------------------------------------------------------------------- claims
\* C1: in the output of topk_mas_otros, a region with N > K distinct
\* salespersons holds exactly K named buckets, the K highest-ranked ones with
\* their group sums unchanged, plus exactly one "Otros" bucket whose value is
\* the sum of the others; a region with N <= K holds exactly its N buckets
\* and no "Otros" bucket.
C1_TopKPlusOthers ==
    pc = "detail" =>
        /\ {datos[i].REGION : i \in 1..Len(datos)} = RegionsFiltered
        /\ \A reg \in RegionsFiltered :
            LET N == Cardinality(SalespersonsIn(reg))
                rest == SalespersonsIn(reg) \ NamedLabels(reg)
            IN  /\ NamedLabels(reg) \subseteq SalespersonsIn(reg)
                /\ Cardinality(NamedLabels(reg)) = Cardinality(Named(reg))
                /\ Cardinality(Named(reg)) = IF N > top_k THEN top_k ELSE N
                /\ Cardinality(Others(reg)) = IF N > top_k THEN 1 ELSE 0
                /\ \A i \in Named(reg) :
                    /\ datos[i].VALOR = GroupSum(reg, datos[i].VENDEDOR)
                    /\ \A v \in rest : GroupSum(reg, v) <= datos[i].VALOR
                /\ \A i \in Others(reg) :
                    datos[i].VALOR =
                        SumOver(rest, [v \in rest |-> GroupSum(reg, v)])

\* A region with at least K + 2 salespersons: two or more are collapsed.
C1_Witness ==
    /\ pc = "detail"
    /\ \E reg \in RegionsFiltered :
        /\ Cardinality(SalespersonsIn(reg)) >= top_k + 2
        /\ \E i \in Others(reg) : datos[i].VALOR # 0

C3_Original ==
    pc = "detail" =>
        \A reg \in RegionsFiltered :
            BucketTotal(reg) = 0 =>
                \A i \in Buckets(reg) : datos[i].PCT_REGION = Fin(0, 1)

\* C3 as amended: when a region's total is 0 the computation does not fail
\* and no bucket gets 0: a bucket of value 0 gets NaN, a bucket of positive
\* value +infinity, a bucket of negative value -infinity.
C3_ZeroTotal ==
    /\ "contrib" \in blocks => pc \in {"detail", "table", "done"}
    /\ pc = "detail" =>
        \A reg \in RegionsFiltered :
            BucketTotal(reg) = 0 =>
                \A i \in Buckets(reg) :
                    datos[i].PCT_REGION =
                        IF datos[i].VALOR = 0 THEN FNaN
                        ELSE IF datos[i].VALOR > 0 THEN FInf ELSE FNegInf

\* A region whose metric values are all missing.
C3_Witness ==
    /\ pc = "detail"
    /\ \E reg \in RegionsFiltered :
        /\ BucketTotal(reg) = 0
        /\ \A r \in RowsIn(reg) :
            df.rows[r][CHOOSE i \in 1..Len(df.columns) : df.columns[i] = metrica].t = "nan"

\* C4 as claimed: average_ticket is total_sales / total_units when
\* total_units > 0 and 0 otherwise, total_units being the integer sum of the
\* units and total_sales the sum of the sales over the non-missing values.
C4_AverageTicket ==
    pc = "topn" =>
        LET units == IntOf(SumOver(Range(df_f), [r \in 1..Len(df.rows) |->
                        LET c == Col(df, UNIDADES_VENDIDAS)[r]
                        IN  IF c.t = "num" THEN c.n ELSE 0]))
            sales == SumOver(Range(df_f), [r \in 1..Len(df.rows) |->
                        LET c == Col(df, VENTAS_TOTALES)[r]
                        IN  IF c.t = "num" THEN c.n ELSE 0])
        IN  /\ kpis[1].total_unidades = units
            /\ kpis[1].total_ventas = Fin(sales, Scale)
            /\ kpis[1].ticket_prom =
                   IF units > 0 THEN Fin(sales, Scale * units) ELSE Fin(0, 1)

\* C5: the filtered view holds exactly the rows whose region is selected
\* and, when a salesperson other than "(Todos)" is chosen, whose full name is
\* that salesperson; each such row once, none other.
C5_FilteredView ==
    Filtered =>
        /\ Range(df_f) =
             {r \in 1..Len(df.rows) :
                /\ RegionOf(df, r).t = "str"
                /\ RegionOf(df, r).s \in regiones_sel
                /\ vendedor_sel = Todos \/ VendedorOf(df, r) = vendedor_sel}
        /\ Cardinality(Range(df_f)) = Len(df_f)

\* A salesperson is chosen; one row is left out by its region, another by
\* its name.
C5_Witness ==
    /\ Filtered
    /\ vendedor_sel # Todos
    /\ df_f # <<>>
    /\ \E r \in 1..Len(df.rows) :
        /\ RegionOf(df, r).t = "str" /\ RegionOf(df, r).s \notin regiones_sel
        /\ VendedorOf(df, r) = vendedor_sel
    /\ \E r \in 1..Len(df.rows) :
        /\ RegionOf(df, r).t = "str" /\ RegionOf(df, r).s \in regiones_sel
        /\ VendedorOf(df, r) # vendedor_sel

\* C6: the salesperson choices offered are exactly the salespersons with a
\* row in a selected region (next to "(Todos)"); the choice made is one of
\* them; the region list is the distinct regions of the whole table,
\* whatever salesperson is chosen.
C6_FilterDependency ==
    WidgetsRead =>
        /\ Range(vendedores_disp) =
             {VendedorOf(df, r) : r \in {x \in 1..Len(df.rows) :
                /\ RegionOf(df, x).t = "str"
                /\ RegionOf(df, x).s \in regiones_sel}}
        /\ vendedor_sel \in {Todos} \cup Range(vendedores_disp)
        /\ Range(regiones) =
             {RegionOf(df, r).s : r \in {x \in 1..Len(df.rows) : RegionOf(df, x).t = "str"}}
        /\ regiones_sel \subseteq Range(regiones)

\* Some regions are selected, and a salesperson has rows only in the others.
C6_Witness ==
    /\ WidgetsRead
    /\ regiones_sel # {}
    /\ vendedor_sel # Todos
    /\ \E r \in 1..Len(df.rows) :
        /\ RegionOf(df, r).t = "str"
        /\ RegionOf(df, r).s \notin regiones_sel
        /\ VendedorOf(df, r) \notin Range(vendedores_disp)

\* The six required columns.
RequiredSix ==
    {REGION, NOMBRE, APELLIDO, UNIDADES_VENDIDAS, VENTAS_TOTALES, PORCENTAJE_DE_VENTAS}

\* The run has validated the columns.
Validated == "normalize" \in blocks /\ pc # "validate"

\* C7: when a required column is absent from the normalized table the run
\* shows an error listing exactly the absent required columns and stops
\* before coercion, filtering and aggregation; when none is absent (SALARIO
\* may be) no error is shown.
C7_MissingColumns ==
    Validated =>
        LET absent == {c \in RequiredSix : \A i \in 1..Len(df.columns) : df.columns[i] # c}
        IN  IF absent # {}
            THEN /\ "error" \in messages
                 /\ pc = "stopped"
                 /\ Range(missing) = absent
                 /\ Len(missing) = Cardinality(absent)
                 /\ blocks = {"normalize"}
                 /\ df_f = <<>> /\ kpis = <<>> /\ datos = <<>>
                 /\ df = normalize_columns(load_data(file))
            ELSE "error" \notin messages /\ missing = <<>>

\* Three required columns are absent and SALARIO is present.
C7_Witness ==
    /\ "error" \in messages
    /\ Len(missing) = 3
    /\ \E i \in 1..Len(df.columns) : df.columns[i] = SALARIO

\* C8: a run whose filters leave no row shows the warning and stops there:
\* no indicator, Top N ranking, contribution view, detail or table is
\* computed in it, and it does not crash; a run that goes past the guard has
\* rows.
C8_EmptyResult ==
    /\ Filtered /\ pc # "guard" /\ df_f = <<>> =>
        /\ "warning" \in messages
        /\ pc = "stopped"
        /\ blocks \cap {"kpis", "topn", "contrib", "detail", "table"} = {}
        /\ kpis = <<>> /\ ranked = <<>> /\ datos = <<>> /\ d = <<>> /\ table = <<>>
    /\ "warning" \in messages => df_f = <<>> /\ pc = "stopped"

\* The table has rows and the filters leave none.
C8_Witness ==
    /\ "warning" \in messages
    /\ Len(df.rows) > 0
    /\ pc = "stopped"

\* C9 as claimed: every header whose trimmed, lower-cased text is a
\* recognized name is renamed to the canonical name, every other header is
\* left unchanged, also when several variants of a name occur in one file.
C9_Normalize ==
    "normalize" \in blocks =>
        \A i \in 1..Len(file.data.columns) :
            LET h == file.data.columns[i]
                hit == {m \in 1..Len(mapping) : mapping[m][1] = Lower(Strip(h))}
            IN  df.columns[i] =
                    IF hit # {} THEN mapping[CHOOSE m \in hit : TRUE][2] ELSE h

\* C10: the detail of the chosen salesperson is computed over all rows of
\* the table with that full name, whatever regions are selected: its rows
\* contain the filtered view, and its totals are the sums over those rows.
C10_DetailScope ==
    "detail" \in blocks =>
        LET rows == {r \in 1..Len(df.rows) : VendedorOf(df, r) = vendedor_sel}
            val(name) == [r \in 1..Len(df.rows) |->
                            LET c == Col(df, name)[r]
                            IN  IF c.t = "num" THEN c.n ELSE 0]
        IN  /\ Range(d[1].rows) = rows
            /\ Range(df_f) \subseteq rows
            /\ d[1].unidades = IntOf(SumOver(rows, val(UNIDADES_VENDIDAS)))
            /\ d[1].ventas = Fin(SumOver(rows, val(VENTAS_TOTALES)), Scale)

\* The detail includes a row of a region that is not selected, and its sales
\* total differs from the indicator.
C10_Witness ==
    /\ "detail" \in blocks
    /\ \E r \in Range(d[1].rows) :
        RegionOf(df, r).t = "str" /\ RegionOf(df, r).s \notin regiones_sel
    /\ d[1].ventas # kpis[1].total_ventas

====
